---------------------------- MODULE Spec2Model ----------------------------
(***************************************************************************)
(* A model of crawler.py: a seed URL is fetched by a pool of worker        *)
(* threads (ThreadUrl) that take Task tuples from task_queue and put        *)
(* ResponseResult tuples on result_queue; main() drains the results,        *)
(* records them in the dict processed_urls and turns discovered links      *)
(* into new tasks, in rounds separated by task_queue.join().               *)
(*                                                                         *)
(* Strings are sequences of tokens.  "/", "?", "#" and "." are the         *)
(* characters themselves; a scheme token such as "http:" stands for the    *)
(* letters of a scheme followed by its colon; every other token stands     *)
(* for a non-empty run of lower-case letters and digits.  The empty        *)
(* string '' is << >>.                                                     *)
(***************************************************************************)
EXTENDS Integers, Sequences, FiniteSets, Bags

VARIABLES
    base_url_string,  \* main's argument
    site,             \* which web the HTTP client talks to (fixed during a run)
    pc,               \* position of main()
    base_url,         \* main: base_url
    root_url,         \* main: root_url
    processed_urls,   \* main: processed_urls, a dict in insertion order
    task_queue,       \* queue.Queue of Task / None: the items not yet taken
    unfinished_tasks, \* task_queue.unfinished_tasks, what join() waits for
    result_queue,     \* queue.Queue of ResponseResult
    has_tasks,        \* main: has_tasks
    num,              \* main: num
    result,           \* main: the result being expanded
    links,            \* main: the links of result not yet iterated over
    wpc,              \* position of each ThreadUrl.run
    wtask,            \* ThreadUrl.run: task
    wexch,            \* process_page: what urlopen answered in the call under way
    report,           \* what print_results has printed after the header line
    created,          \* history: every Task ever put on task_queue, in order
    taken,            \* history: every Task a worker got from task_queue, in order
    produced,         \* history: the bag of every ResponseResult put on result_queue
    consumed          \* history: the bag of every ResponseResult main got from result_queue

vars == << base_url_string, site, pc, base_url, root_url, processed_urls,
           task_queue, unfinished_tasks, result_queue, has_tasks, num,
           result, links, wpc, wtask, wexch, report, created, taken,
           produced, consumed >>

-----------------------------------------------------------------------------
(* Strings *)

SchemeToks == {"http:", "https:", "mailto:", "javascript:", "whatsapp:", "tel:"}

\* tokens made only of characters that may occur in a scheme (letters, digits, + - .)
SchemeCharToks == {"www", "example", "com", "other", "a", "c", "d", "x", "q", "f", "."}

EmptyStr == << >>

\* Python evaluates the arguments of a call once, before the call: an operator
\* below binds each argument once, as the element of a singleton set, and Val
\* takes the value computed from them
Val(S) == CHOOSE x \in S : TRUE

\* str.find for the first token of a set: its index, 0 when there is none
Find(s_, T_) ==
    Val({
        IF \E i \in 1..Len(s) : s[i] \in T
        THEN CHOOSE i \in 1..Len(s) : s[i] \in T /\ \A j \in 1..(i-1) : s[j] \notin T
        ELSE 0
        : s \in { s_ }, T \in { T_ } })

\* str.startswith
startswith(s_, p_) ==
    Val({
        Len(s) >= Len(p) /\ SubSeq(s, 1, Len(p)) = p
        : s \in { s_ }, p \in { p_ } })

\* s[i:] with a 1-based i
From(s_, i_) ==
    Val({
        SubSeq(s, i, Len(s))
        : s \in { s_ }, i \in { i_ } })

\* str.split(sep): the pieces between the occurrences of the token sep
RECURSIVE split(_, _)
split(s_, sep_) ==
    Val({
        LET i == Find(s, {sep}) IN
        IF i = 0 THEN << s >>
        ELSE << SubSeq(s, 1, i-1) >> \o split(From(s, i+1), sep)
        : s \in { s_ }, sep \in { sep_ } })

\* sep.join(parts)
RECURSIVE join(_, _)
join(parts_, sep_) ==
    Val({
        IF Len(parts) = 0 THEN EmptyStr
        ELSE IF Len(parts) = 1 THEN parts[1]
        ELSE parts[1] \o << sep >> \o join(Tail(parts), sep)
        : parts \in { parts_ }, sep \in { sep_ } })

-----------------------------------------------------------------------------
(* urllib.parse *)

HTTP  == << "http:", "/", "/" >>
HTTPS == << "https:", "/", "/" >>

\* the schemes of urllib.parse.uses_netloc and uses_relative that have a token
uses_netloc   == { << "http:" >>, << "https:" >> }
uses_relative == { << "http:" >>, << "https:" >> }

\* str.partition at the first token of a set (before, whether found, after)
partition(s_, T_) ==
    Val({
        LET i == Find(s, T) IN
        IF i = 0 THEN [before |-> s, found |-> FALSE, after |-> EmptyStr]
        ELSE [before |-> SubSeq(s, 1, i-1), found |-> TRUE, after |-> From(s, i+1)]
        : s \in { s_ }, T \in { T_ } })

\* urlsplit, after the netloc: the fragment follows the first "#", the query the
\* first "?" before it
urlsplit_path(scheme_, netloc_, rest_) ==
    Val({
        LET f == partition(rest, {"#"}) IN
        LET q == partition(f.before, {"?"}) IN
        [scheme |-> scheme, netloc |-> netloc, path |-> q.before,
         query |-> q.after, fragment |-> f.after]
        : scheme \in { scheme_ }, netloc \in { netloc_ }, rest \in { rest_ } })

\* urlsplit, after the scheme: "//" starts a netloc that ends before "/", "?" or "#"
urlsplit_netloc(scheme_, rest_) ==
    Val({
        IF startswith(rest, << "/", "/" >>)
        THEN LET d == Find(From(rest, 3), {"/", "?", "#"}) IN
             IF d = 0 THEN urlsplit_path(scheme, From(rest, 3), EmptyStr)
             ELSE urlsplit_path(scheme, SubSeq(rest, 3, d + 1), From(rest, d + 2))
        ELSE urlsplit_path(scheme, EmptyStr, rest)
        : scheme \in { scheme_ }, rest \in { rest_ } })

\* urllib.parse.urlsplit: what precedes the first colon is the scheme when it is
\* made of scheme characters.  urlparse adds only the ";params" split, and no
\* ";" is a token
urlsplit(url_) ==
    Val({
        LET i == Find(url, SchemeToks) IN
        IF i > 0 /\ \A j \in 1..(i-1) : url[j] \in SchemeCharToks
        THEN urlsplit_netloc(SubSeq(url, 1, i), From(url, i+1))
        ELSE urlsplit_netloc(EmptyStr, url)
        : url \in { url_ } })

urlparse(url) == urlsplit(url)

\* urlunsplit: "//" and the netloc before the path
unsplit_netloc(scheme_, netloc_, path_) ==
    Val({
        IF netloc # EmptyStr
           \/ (scheme # EmptyStr /\ scheme \in uses_netloc
               /\ ~startswith(path, << "/", "/" >>))
        THEN << "/", "/" >> \o netloc
             \o (IF path # EmptyStr /\ path[1] # "/" THEN << "/" >> ELSE EmptyStr)
             \o path
        ELSE path
        : scheme \in { scheme_ }, netloc \in { netloc_ }, path \in { path_ } })

\* urllib.parse.urlunsplit; a scheme token already ends with its colon
urlunsplit(scheme_, netloc_, path_, query_, fragment_) ==
    Val({
        scheme \o unsplit_netloc(scheme, netloc, path)
        \o (IF query # EmptyStr THEN << "?" >> \o query ELSE EmptyStr)
        \o (IF fragment # EmptyStr THEN << "#" >> \o fragment ELSE EmptyStr)
        : scheme \in { scheme_ }, netloc \in { netloc_ }, path \in { path_ }, query \in { query_ }, fragment \in { fragment_ } })

\* urllib.parse.urldefrag(url).url
unparse_without_fragment(p_) ==
    Val({
        urlunsplit(p.scheme, p.netloc, p.path, p.query, EmptyStr)
        : p \in { p_ } })

urldefrag(url_) ==
    Val({
        IF Find(url, {"#"}) > 0 THEN unparse_without_fragment(urlparse(url)) ELSE url
        : url \in { url_ } })

\* urljoin's loop over the segments: ".." pops, "." is dropped
RECURSIVE resolve_segments(_, _)
resolve_segments(segments_, resolved_) ==
    Val({
        IF Len(segments) = 0 THEN resolved
        ELSE LET seg == Head(segments) IN
             IF seg = << ".", "." >>
             THEN resolve_segments(Tail(segments),
                      IF Len(resolved) = 0 THEN resolved
                      ELSE SubSeq(resolved, 1, Len(resolved) - 1))
             ELSE IF seg = << "." >>
             THEN resolve_segments(Tail(segments), resolved)
             ELSE resolve_segments(Tail(segments), Append(resolved, seg))
        : segments \in { segments_ }, resolved \in { resolved_ } })

\* segments[1:-1] = filter(None, segments[1:-1])
filter_middle(segments_) ==
    Val({
        IF Len(segments) <= 2 THEN segments
        ELSE << segments[1] >>
             \o SelectSeq(SubSeq(segments, 2, Len(segments) - 1), LAMBDA x : x # EmptyStr)
             \o << segments[Len(segments)] >>
        : segments \in { segments_ } })

\* urljoin: the path of url merged with the path of base
urljoin_path(bpath_, path_) ==
    Val({
        LET bp0 == split(bpath, "/") IN
        LET base_parts == IF bp0[Len(bp0)] # EmptyStr
                          THEN SubSeq(bp0, 1, Len(bp0) - 1) ELSE bp0 IN
        LET segments == IF path[1] = "/"
                        THEN split(path, "/")
                        ELSE filter_middle(base_parts \o split(path, "/")) IN
        LET res0 == resolve_segments(segments, << >>) IN
        LET joined == join(IF segments[Len(segments)] \in { << "." >>, << ".", "." >> }
                           THEN Append(res0, EmptyStr) ELSE res0, "/") IN
        IF joined = EmptyStr THEN << "/" >> ELSE joined
        : bpath \in { bpath_ }, path \in { path_ } })

\* urljoin, once base and url are parsed (b and u) and url's scheme defaults to
\* the scheme of base
urljoin_parsed(b_, u_, scheme_, url_) ==
    Val({
        IF scheme # b.scheme \/ scheme \notin uses_relative THEN url
        ELSE IF scheme \in uses_netloc /\ u.netloc # EmptyStr
        THEN urlunsplit(scheme, u.netloc, u.path, u.query, u.fragment)
        ELSE IF u.path = EmptyStr
        THEN urlunsplit(scheme, IF scheme \in uses_netloc THEN b.netloc ELSE u.netloc,
                        b.path, IF u.query = EmptyStr THEN b.query ELSE u.query,
                        u.fragment)
        ELSE urlunsplit(scheme, IF scheme \in uses_netloc THEN b.netloc ELSE u.netloc,
                        urljoin_path(b.path, u.path), u.query, u.fragment)
        : b \in { b_ }, u \in { u_ }, scheme \in { scheme_ }, url \in { url_ } })

default_scheme(u_, b_) ==
    Val({
        IF u.scheme = EmptyStr THEN b.scheme ELSE u.scheme
        : u \in { u_ }, b \in { b_ } })

\* urllib.parse.urljoin(base, url)
urljoin(base_, url_) ==
    Val({
        IF base = EmptyStr THEN url
        ELSE IF url = EmptyStr THEN base
        ELSE urljoin_parsed(urlparse(base), urlparse(url),
                            default_scheme(urlparse(url), urlparse(base)), url)
        : base \in { base_ }, url \in { url_ } })

-----------------------------------------------------------------------------
(* crawler.py: the URL helpers *)

\* restore_relative_url(relative_url, root_url)
restore_relative_url(relative_url_, root_) ==
    Val({
        urljoin(root, relative_url)
        : relative_url \in { relative_url_ }, root \in { root_ } })

\* clean_fragments(url)
clean_fragments(url_) ==
    Val({
        urldefrag(url)
        : url \in { url_ } })

\* is_relative(relative_url)
is_relative(relative_url_) ==
    Val({
        ~(urlparse(relative_url).netloc # EmptyStr)
        : relative_url \in { relative_url_ } })

\* is_same_domain(url, root_url)
is_same_domain(url_, root_) ==
    Val({
        urlparse(url).netloc # EmptyStr /\ urlparse(url).netloc = urlparse(root).netloc
        : url \in { url_ }, root \in { root_ } })

\* get_base_url(base_url_string): urlsplit(...)[:3] is (scheme, netloc, path)
unsplit_first_three(p_) ==
    Val({
        urlunsplit(p.scheme, p.netloc, p.path, EmptyStr, EmptyStr)
        : p \in { p_ } })

get_base_url(s_) ==
    Val({
        IF ~(startswith(s, HTTP) \/ startswith(s, HTTPS))
        THEN unsplit_first_three(urlsplit(HTTP \o s))
        ELSE unsplit_first_three(urlsplit(s))
        : s \in { s_ } })

\* the last n elements of a sequence, s[-n:]
LastN(s_, n_) ==
    Val({
        IF Len(s) <= n THEN s ELSE SubSeq(s, Len(s) - n + 1, Len(s))
        : s \in { s_ }, n \in { n_ } })

\* get_root_url(base_url_string)
get_root_url(s_) ==
    Val({
        urlunsplit(urlparse(s).scheme,
                   join(LastN(split(urlparse(s).netloc, "."), 2), "."),
                   EmptyStr, EmptyStr, EmptyStr)
        : s \in { s_ } })

-----------------------------------------------------------------------------
(* crawler.py: the tuples, None, and the dict processed_urls *)

\* Python's None where a status is expected
None == -1

\* Task(url, collect_links); stop marks the None that main puts as the stop signal
Task(url, collect_links) == [stop |-> FALSE, url |-> url, collect_links |-> collect_links]
StopSignal == [stop |-> TRUE, url |-> EmptyStr, collect_links |-> FALSE]

\* ResponseResult(url, status, error, links, redirect)
ResponseResult(url, status, error, lnks, redirect) ==
    [url |-> url, status |-> status, error |-> error, links |-> lnks, redirect |-> redirect]

NoResult == ResponseResult(EmptyStr, None, EmptyStr, << >>, EmptyStr)

\* the values of processed_urls: None, or {'status': ..., 'error': ...}
NoneValue == [is_none |-> TRUE, status |-> None, error |-> EmptyStr]
Data(status, error) == [is_none |-> FALSE, status |-> status, error |-> error]

\* a dict is the sequence of its items in insertion order
EmptyDict == << >>
keys(d_) ==
    Val({
        { d[i].key : i \in 1..Len(d) }
        : d \in { d_ } })

contains(d_, k_) ==
    Val({
        \E i \in 1..Len(d) : d[i].key = k
        : d \in { d_ }, k \in { k_ } })

getitem(d_, k_) ==
    Val({
        d[CHOOSE i \in 1..Len(d) : d[i].key = k].value
        : d \in { d_ }, k \in { k_ } })

setitem(d_, k_, v_) ==
    Val({
        IF contains(d, k)
        THEN [i \in 1..Len(d) |-> IF d[i].key = k THEN [key |-> k, value |-> v] ELSE d[i]]
        ELSE Append(d, [key |-> k, value |-> v])
        : d \in { d_ }, k \in { k_ }, v \in { v_ } })

-----------------------------------------------------------------------------
(* The web: what request.urlopen can answer for each URL *)

\* a response that urlopen returns: its status, geturl(), whether the body decodes
\* with the charset, and the href values LinkParser finds in it, in document order
Response(status, geturl, decodable, hrefs) ==
    [kind |-> "response", status |-> status, geturl |-> geturl,
     decodable |-> decodable, hrefs |-> hrefs, reason |-> EmptyStr]

\* error.HTTPError and error.URLError with their reason
HTTPError(reason) ==
    [kind |-> "HTTPError", status |-> None, geturl |-> EmptyStr,
     decodable |-> FALSE, hrefs |-> << >>, reason |-> reason]
URLError(reason) ==
    [kind |-> "URLError", status |-> None, geturl |-> EmptyStr,
     decodable |-> FALSE, hrefs |-> << >>, reason |-> reason]

Example    == << "example", ".", "com" >>
WwwExample == << "www", ".", "example", ".", "com" >>
Other      == << "other", ".", "com" >>
WwwOther   == << "www", ".", "other", ".", "com" >>

UrlS  == HTTP \o Example \o << "/" >>
UrlA  == HTTP \o Example \o << "/", "a" >>
UrlC  == HTTP \o Example \o << "/", "c" >>
UrlD  == HTTP \o Example \o << "/", "d", "/" >>
UrlDC == HTTP \o Example \o << "/", "d", "/", "c" >>
UrlO  == HTTP \o Other \o << "/" >>
UrlOW == HTTP \o WwwOther \o << "/" >>
UrlW  == HTTP \o WwwExample \o << "/" >>
UrlWA == HTTP \o WwwExample \o << "/", "a" >>
UrlX  == << "/", "/" >> \o Other \o << "/", "x" >>
UrlT  == << "tel:", "x" >>

\* the seed page: a page that redirects, an external page that redirects to
\* another external page that is linked too, and links that are not pages
HrefsS == << << "mailto:", "x" >>, << "#", "f" >>, << "/", "a" >>,
             UrlO \o << "#", "f" >>, UrlOW >>
\* the page at /d/, which /a redirects to
HrefsD == << << "/", "d", "/" >>, << "c" >>, UrlT >>
HrefsC == << UrlX, << "/" >> >>

\* scenario A: two same-domain links and one external link on the seed page
HrefsScenarioA == << << "/", "a" >>, << "/", "c" >>, UrlO >>

\* the exchanges the network can produce for a GET of url
Exchanges(web, url) ==
    IF web = "scenarioA" THEN
        IF url = UrlS THEN { Response(200, UrlS, TRUE, HrefsScenarioA) }
        ELSE IF url \in {UrlA, UrlC} THEN { Response(200, url, TRUE, << << "/" >> >>) }
        ELSE IF url = UrlO THEN { Response(200, UrlO, TRUE, << << "/", "x" >> >>) }
        ELSE { URLError(<< "x" >>) }
    ELSE
        IF url = UrlS THEN { Response(200, UrlS, TRUE, HrefsS) }
        ELSE IF url = UrlA THEN { Response(200, UrlD, TRUE, HrefsD),
                                  Response(200, UrlD, FALSE, HrefsD),
                                  HTTPError(<< "x" >>) }
        ELSE IF url = UrlC THEN { Response(200, UrlC, TRUE, HrefsC), HTTPError(<< "x" >>) }
        ELSE IF url = UrlDC THEN { Response(200, UrlDC, TRUE, << >>) }
        ELSE IF url = UrlO THEN { Response(200, UrlOW, TRUE, << << "/", "x" >> >>),
                                  URLError(<< "x" >>) }
        ELSE IF url = UrlOW THEN { Response(200, UrlOW, TRUE, << << "/", "x" >> >>) }
        ELSE IF url = UrlW THEN { Response(200, UrlW, TRUE, << << "/", "a" >> >>) }
        ELSE IF url = UrlWA THEN { Response(200, UrlWA, TRUE, << << "/" >> >>) }
        ELSE { URLError(<< "x" >>) }

\* request.Request(url): the type before the first colon, << >> when there is none
\* and Request raises ValueError
request_type(url_) ==
    Val({
        LET i == Find(url, SchemeToks) IN
        IF i > 0 /\ \A j \in 1..(i-1) : url[j] # "/" THEN SubSeq(url, 1, i) ELSE EmptyStr
        : url \in { url_ } })

\* no exchange: urlopen was not called
NoExchange ==
    [kind |-> "none", status |-> None, geturl |-> EmptyStr,
     decodable |-> FALSE, hrefs |-> << >>, reason |-> EmptyStr]

\* request.urlopen(req): a URL of a type without a handler is a URLError; for a
\* URL that Request refuses, urlopen is not reached
urlopen(web_, url_) ==
    Val({
        IF request_type(url) = EmptyStr THEN { NoExchange }
        ELSE IF request_type(url) \in { << "http:" >>, << "https:" >> }
        THEN Exchanges(web, url)
        ELSE { URLError(<< "unknown", "url", "type" >>) }
        : web \in { web_ }, url \in { url_ } })

-----------------------------------------------------------------------------
(* crawler.py: process_page and print_results *)

\* process_page(url, collect_links) when urlopen answers with exchange x:
\* raised tells that an exception left the function, value is what it returned
process_page(url_, collect_links_, x_) ==
    Val({
        IF request_type(url) = EmptyStr
        THEN [raised |-> TRUE, value |-> NoResult]
        ELSE IF x.kind = "response"
        THEN IF x.status < 400 /\ collect_links
             THEN IF x.decodable
                  THEN [raised |-> FALSE,
                        value |-> ResponseResult(url, x.status, EmptyStr, x.hrefs, x.geturl)]
                  ELSE [raised |-> TRUE, value |-> NoResult]
             ELSE [raised |-> FALSE,
                   value |-> ResponseResult(url, x.status, EmptyStr, << >>, x.geturl)]
        ELSE IF x.kind = "HTTPError"
        THEN [raised |-> FALSE,
              value |-> ResponseResult(url, None, << "Server error: " >> \o x.reason,
                                       << >>, EmptyStr)]
        ELSE [raised |-> FALSE,
              value |-> ResponseResult(url, None, << "Network error: " >> \o x.reason,
                                       << >>, EmptyStr)]
        : url \in { url_ }, collect_links \in { collect_links_ }, x \in { x_ } })

\* the test of print_results on one item: "skip", "print", "pass", or "TypeError"
\* when None is compared with 400
print_test(data_) ==
    Val({
        IF data.is_none THEN "skip"
        ELSE IF data.error # EmptyStr THEN "print"
        ELSE IF data.status = None THEN "TypeError"
        ELSE IF data.status > 400 THEN "print"
        ELSE "pass"
        : data \in { data_ } })

\* print_results(processed_urls): the lines printed after the header, and whether
\* the loop ended in an exception
RECURSIVE print_lines(_)
print_lines(d_) ==
    Val({
        IF Len(d) = 0 THEN << >>
        ELSE LET t == print_test(Head(d).value) IN
             IF t = "TypeError" THEN << >>
             ELSE IF t = "print"
             THEN << [url |-> Head(d).key, status |-> Head(d).value.status,
                      error |-> Head(d).value.error] >> \o print_lines(Tail(d))
             ELSE print_lines(Tail(d))
        : d \in { d_ } })

print_results(d_) ==
    Val({
        [lines  |-> print_lines(d),
         raised |-> \E i \in 1..Len(d) : print_test(d[i].value) = "TypeError"]
        : d \in { d_ } })

-----------------------------------------------------------------------------
(* crawler.py: main's expansion of one link of a result *)

\* line 221: the links main drops (link is already without its fragment)
skip_link(link_) ==
    Val({
        link = EmptyStr
        \/ startswith(link, << "javascript:" >>)
        \/ startswith(link, << "mailto:" >>)
        \/ startswith(link, << "whatsapp:" >>)
        : link \in { link_ } })

\* lines 223-227: a relative link is joined with result.url when result.redirect
\* is not empty and with result.redirect otherwise
resolve_link(link_, res_) ==
    Val({
        IF is_relative(link)
        THEN IF res.redirect # EmptyStr
             THEN restore_relative_url(link, res.url)
             ELSE restore_relative_url(link, res.redirect)
        ELSE link
        : link \in { link_ }, res \in { res_ } })

\* lines 220-227: the link main looks up in processed_urls, Skipped for a link
\* that line 222 drops
Skipped == << "continue" >>
expanded_link(href_, res_) ==
    Val({
        IF skip_link(clean_fragments(href)) THEN Skipped
        ELSE resolve_link(clean_fragments(href), res)
        : href \in { href_ }, res \in { res_ } })

\* is_new without the lookup: every link counts as new
is_new_always(d, link) == TRUE

\* line 229: link not in processed_urls
is_new(d, link) == ~contains(d, link)

\* mark_pending without the assignment of line 230
mark_pending_never(d, link) == d

\* line 230: processed_urls[link] = None
mark_pending(d, link) == setitem(d, link, NoneValue)

\* line 234: the task of a new link
new_task(link_, root_) ==
    Val({
        Task(link, is_same_domain(link, root))
        : link \in { link_ }, root \in { root_ } })

\* record_redirect without the test of line 215
record_redirect_always(d, res) == setitem(d, res.redirect, NoneValue)

\* lines 214-217: what main records when it takes a result
record_redirect(d_, res_) ==
    Val({
        IF res.redirect # EmptyStr THEN setitem(d, res.redirect, NoneValue) ELSE d
        : d \in { d_ }, res \in { res_ } })

\* record_result without the second assignment of line 217
record_result_once(d, res) ==
    record_redirect(setitem(d, res.url, Data(res.status, res.error)), res)

record_result(d_, res_) ==
    Val({
        setitem(record_redirect(setitem(d, res.url, Data(res.status, res.error)), res),
                res.url, Data(res.status, res.error))
        : d \in { d_ }, res \in { res_ } })

-----------------------------------------------------------------------------
(* The state machine *)

\* the number of ThreadUrl workers main starts (50 in crawler.py)
THREADS_NUM == 2

Workers == 1..THREADS_NUM

NoTask == Task(EmptyStr, FALSE)

\* the arguments main is started with
Seeds == { Example \o << "/" >>,
           HTTP \o Example \o << "/", "#", "f" >>,
           WwwExample \o << "/" >> }

InitCommon ==
    /\ pc = "start"
    /\ base_url = EmptyStr
    /\ root_url = EmptyStr
    /\ processed_urls = EmptyDict
    /\ task_queue = << >>
    /\ unfinished_tasks = 0
    /\ result_queue = << >>
    /\ has_tasks = FALSE
    /\ num = 0
    /\ result = NoResult
    /\ links = << >>
    /\ wpc = [w \in Workers |-> "get"]
    /\ wtask = [w \in Workers |-> NoTask]
    /\ wexch = [w \in Workers |-> NoExchange]
    /\ report = [lines |-> << >>, raised |-> FALSE]
    /\ created = << >>
    /\ taken = << >>
    /\ produced = EmptyBag
    /\ consumed = EmptyBag

Init ==
    /\ base_url_string \in Seeds
    /\ site = "web"
    /\ InitCommon

\* a put that join() does not wait for
put_task_uncounted(item) ==
    /\ task_queue' = Append(task_queue, item)
    /\ unfinished_tasks' = unfinished_tasks

\* task_queue.put(item)
put_task(item) ==
    /\ task_queue' = Append(task_queue, item)
    /\ unfinished_tasks' = unfinished_tasks + 1

\* main, lines 176-199: the workers are already blocked in tasks.get()
Start ==
    /\ pc = "start"
    /\ \E base \in { get_base_url(base_url_string) } :
       /\ base_url' = base
       /\ IF base = EmptyStr
          THEN /\ pc' = "exit"
               /\ UNCHANGED << root_url, processed_urls, task_queue,
                               unfinished_tasks, created >>
          ELSE /\ root_url' = get_root_url(base)
               /\ processed_urls' = EmptyDict
               /\ put_task(Task(base, TRUE))
               /\ created' = Append(created, Task(base, TRUE))
               /\ pc' = "join_seed"
    /\ UNCHANGED << base_url_string, site, result_queue, has_tasks, num, result,
                    links, wpc, wtask, wexch, report,
                    taken, produced, consumed >>

\* task_queue.join() that does not wait
join_returns_always(n) == TRUE

\* task_queue.join() returns when unfinished_tasks is 0
join_returns(n) == n = 0

\* main, lines 202-204: task_queue.join() returns when unfinished_tasks is 0
JoinSeed ==
    /\ pc = "join_seed"
    /\ join_returns(unfinished_tasks)
    /\ has_tasks' = TRUE
    /\ pc' = "loop"
    /\ UNCHANGED << base_url_string, site, base_url, root_url, processed_urls,
                    task_queue, unfinished_tasks, result_queue, num, result, links,
                    wpc, wtask, wexch, report, created,
                    taken, produced, consumed >>

\* main, lines 206-211: the test of the outer loop and the start of a round
LoopTest ==
    /\ pc = "loop"
    /\ IF has_tasks
       THEN /\ has_tasks' = FALSE
            /\ num' = 0
            /\ pc' = "drain"
       ELSE /\ pc' = "stop"
            /\ UNCHANGED << has_tasks, num >>
    /\ UNCHANGED << base_url_string, site, base_url, root_url, processed_urls,
                    task_queue, unfinished_tasks, result_queue, result, links, wpc,
                    wtask, wexch, report, created,
                    taken, produced, consumed >>

\* main, lines 212-217: the test of the inner loop, result_queue.get() and the
\* entries written for the result
Drain ==
    /\ pc = "drain"
    /\ IF result_queue = << >>
       THEN /\ pc' = "join"
            /\ UNCHANGED << result_queue, result, links, processed_urls, consumed >>
       ELSE /\ result' = Head(result_queue)
            /\ consumed' = consumed (+) SetToBag({ Head(result_queue) })
            /\ result_queue' = Tail(result_queue)
            /\ processed_urls' = record_result(processed_urls, Head(result_queue))
            /\ links' = Head(result_queue).links
            /\ pc' = IF Head(result_queue).links = << >> THEN "drain" ELSE "links"
    /\ UNCHANGED << base_url_string, site, base_url, root_url, task_queue,
                    unfinished_tasks, has_tasks, num, wpc, wtask, wexch, report,
                    created,
                    taken, produced >>

\* main, lines 219-235: one iteration of the loop over result.links
ExpandLink ==
    /\ pc = "links"
    /\ \E link \in { expanded_link(Head(links), result) } :
          IF link # Skipped /\ is_new(processed_urls, link)
          THEN /\ processed_urls' = mark_pending(processed_urls, link)
               /\ has_tasks' = TRUE
               /\ num' = num + 1
               /\ put_task(new_task(link, root_url))
               /\ created' = Append(created, new_task(link, root_url))
          ELSE UNCHANGED << processed_urls, has_tasks, num, task_queue,
                            unfinished_tasks, created >>
    /\ links' = Tail(links)
    /\ pc' = IF Tail(links) = << >> THEN "drain" ELSE "links"
    /\ UNCHANGED << base_url_string, site, base_url, root_url, result_queue,
                    result, wpc, wtask, wexch, report,
                    taken, produced, consumed >>

\* main, line 237: task_queue.join()
Join ==
    /\ pc = "join"
    /\ join_returns(unfinished_tasks)
    /\ pc' = "loop"
    /\ UNCHANGED << base_url_string, site, base_url, root_url, processed_urls,
                    task_queue, unfinished_tasks, result_queue, has_tasks, num,
                    result, links, wpc, wtask, wexch, report, created,
                    taken, produced, consumed >>

\* main, lines 240-241: one None for each worker
SendStop ==
    /\ pc = "stop"
    /\ task_queue' = task_queue \o [i \in 1..THREADS_NUM |-> StopSignal]
    /\ unfinished_tasks' = unfinished_tasks + THREADS_NUM
    /\ pc' = "report"
    /\ UNCHANGED << base_url_string, site, base_url, root_url, processed_urls,
                    result_queue, has_tasks, num, result, links, wpc, wtask, wexch,
                    report, created,
                    taken, produced, consumed >>

\* main, lines 243-244
PrintResults ==
    /\ pc = "report"
    /\ report' = print_results(processed_urls)
    /\ pc' = "exit"
    /\ UNCHANGED << base_url_string, site, base_url, root_url, processed_urls,
                    task_queue, unfinished_tasks, result_queue, has_tasks, num,
                    result, links, wpc, wtask, wexch, created,
                    taken, produced, consumed >>

\* ThreadUrl.run, lines 147-150: tasks.get() blocks while the queue is empty
WorkerGet(w) ==
    /\ wpc[w] = "get"
    /\ task_queue # << >>
    /\ task_queue' = Tail(task_queue)
    /\ IF Head(task_queue).stop
       THEN /\ wpc' = [wpc EXCEPT ![w] = "stopped"]
            /\ UNCHANGED wtask
       ELSE /\ wpc' = [wpc EXCEPT ![w] = "process"]
            /\ wtask' = [wtask EXCEPT ![w] = Head(task_queue)]
    /\ taken' = IF Head(task_queue).stop THEN taken ELSE Append(taken, Head(task_queue))
    /\ UNCHANGED << base_url_string, site, pc, base_url, root_url, processed_urls,
                    unfinished_tasks, result_queue, has_tasks, num, result, links,
                    wexch, report, created,
                    produced, consumed >>

\* ThreadUrl.run, line 151: process_page and results.put; an exception out of
\* process_page ends the thread
WorkerProcess(w) ==
    /\ wpc[w] = "process"
    /\ \E x \in urlopen(site, wtask[w].url) :
       /\ \E r \in { process_page(wtask[w].url, wtask[w].collect_links, x) } :
         IF r.raised
         THEN /\ wpc' = [wpc EXCEPT ![w] = "crashed"]
              /\ UNCHANGED << result_queue, produced >>
         ELSE /\ wpc' = [wpc EXCEPT ![w] = "task_done"]
              /\ result_queue' = Append(result_queue, r.value)
              /\ produced' = produced (+) SetToBag({ r.value })
       /\ wexch' = [wexch EXCEPT ![w] = x]
    /\ UNCHANGED << base_url_string, site, pc, base_url, root_url, processed_urls,
                    task_queue, unfinished_tasks, has_tasks, num, result, links,
                    wtask, report, created,
                    taken, consumed >>

\* ThreadUrl.run, line 152: tasks.task_done()
WorkerTaskDone(w) ==
    /\ wpc[w] = "task_done"
    /\ unfinished_tasks' = unfinished_tasks - 1
    /\ wpc' = [wpc EXCEPT ![w] = "get"]
    /\ wexch' = [wexch EXCEPT ![w] = NoExchange]
    /\ UNCHANGED << base_url_string, site, pc, base_url, root_url, processed_urls,
                    task_queue, result_queue, has_tasks, num, result, links, wtask,
                    report, created,
                    taken, produced, consumed >>

Main == Start \/ JoinSeed \/ LoopTest \/ Drain \/ ExpandLink \/ Join \/ SendStop \/ PrintResults

Worker(w) == WorkerGet(w) \/ WorkerProcess(w) \/ WorkerTaskDone(w)

Next == Main \/ \E w \in Workers : Worker(w)

Spec == Init /\ [][Next]_vars

\* the workers are scheduled fairly and main keeps running
Fairness == WF_vars(Main) /\ \A w \in Workers : WF_vars(Worker(w))

FairSpec == Spec /\ Fairness

\* main has left its round loop
DonePcs == { "stop", "report", "exit" }

-----------------------------------------------------------------------------
(* Scenario A of the specification: every fetch succeeds without a redirect *)

InitA ==
    /\ base_url_string = Example \o << "/" >>
    /\ site = "scenarioA"
    /\ InitCommon

FairSpecA == InitA /\ [][Next]_vars /\ Fairness

-----------------------------------------------------------------------------
(* get_base_url on its own: main's first step for a range of arguments *)

BaseInputs ==
    { pre \o host \o path \o query \o frag :
        pre   \in { EmptyStr, HTTP, HTTPS },
        host  \in { Example, WwwExample },
        path  \in { EmptyStr, << "/" >>, << "/", "a" >> },
        query \in { EmptyStr, << "?" >>, << "?", "q" >> },
        frag  \in { EmptyStr, << "#", "f" >> } }

InitBase ==
    /\ base_url_string \in BaseInputs
    /\ site = "web"
    /\ InitCommon

SpecBase == InitBase /\ [][Start]_vars

-----------------------------------------------------------------------------
(* print_results on its own: main's last step for a range of dicts *)

ReportValues ==
    { NoneValue, Data(200, EmptyStr), Data(399, EmptyStr), Data(400, EmptyStr),
      Data(401, EmptyStr), Data(500, EmptyStr),
      Data(None, << "Network error: ", "x" >>),
      Data(None, << "Server error: ", "x" >>) }

ReportDicts ==
    { << [key |-> k, value |-> v] >> : k \in { UrlS, UrlA, UrlO }, v \in ReportValues }
    \cup
    { << [key |-> UrlS, value |-> v1], [key |-> k, value |-> v2] >> :
        k \in { UrlA, UrlO }, v1 \in ReportValues, v2 \in ReportValues }

InitReport ==
    /\ base_url_string = Example \o << "/" >>
    /\ site = "web"
    /\ pc = "report"
    /\ base_url = UrlS
    /\ root_url = HTTP \o Example
    /\ processed_urls \in ReportDicts
    /\ task_queue = [i \in 1..THREADS_NUM |-> StopSignal]
    /\ unfinished_tasks = THREADS_NUM
    /\ result_queue = << >>
    /\ has_tasks = FALSE
    /\ num = 0
    /\ result = NoResult
    /\ links = << >>
    /\ wpc = [w \in Workers |-> "get"]
    /\ wtask = [w \in Workers |-> NoTask]
    /\ wexch = [w \in Workers |-> NoExchange]
    /\ report = [lines |-> << >>, raised |-> FALSE]
    /\ created = << Task(UrlS, TRUE) >>
    /\ taken = << Task(UrlS, TRUE) >>
    /\ produced = EmptyBag
    /\ consumed = EmptyBag

SpecReport == InitReport /\ [][PrintResults]_vars

-----------------------------------------------------------------------------
(* The claims *)

\* C1: for every URL at most one Task with that url is ever put on task_queue,
\* the seed task included.
C1_AtMostOneTaskPerUrl ==
    \A i, j \in 1..Len(created) : created[i].url = created[j].url => i = j

\* C1 witness: the page at /c has been expanded, its link "/" led back to the
\* seed, and the seed still has exactly one task.
C1_Witness ==
    /\ result.url = UrlC
    /\ result.links = HrefsC
    /\ links = << >>
    /\ pc = "drain"
    /\ Cardinality({ i \in 1..Len(created) : created[i].url = UrlS }) = 1

\* C2: under fair scheduling main always leaves its round loop, whatever each
\* fetch produces.
C2_EventuallyDone == <>(pc \in DonePcs)

\* C3: when a page whose links are wanted cannot be decoded, the worker still
\* puts one result for it, without links and with the status and final URL of
\* the response, and goes on to task_done.
C3_UndecodablePageStillAnswers ==
    [][ \A w \in Workers :
          ( /\ wpc[w] = "process"
            /\ wpc'[w] # "process"
            /\ wexch'[w].kind = "response"
            /\ ~wexch'[w].decodable
            /\ wtask[w].collect_links )
          => /\ wpc'[w] = "task_done"
             /\ result_queue' =
                  Append(result_queue,
                         ResponseResult(wtask[w].url, wexch'[w].status, EmptyStr,
                                        << >>, wexch'[w].geturl)) ]_vars

C4_ErrorResult(r) ==
    r.status = None /\ r.error # EmptyStr /\ r.links = << >> /\ r.redirect = EmptyStr

C4_FetchStep ==
    \A w \in Workers :
        ( /\ wpc[w] = "process"
          /\ wpc'[w] # "process"
          /\ wexch'[w].kind \in { "HTTPError", "URLError" } )
        => /\ wpc'[w] = "task_done"
           /\ Len(result_queue') = Len(result_queue) + 1
           /\ SubSeq(result_queue', 1, Len(result_queue)) = result_queue
           /\ result_queue'[Len(result_queue')].url = wtask[w].url
           /\ C4_ErrorResult(result_queue'[Len(result_queue')])

C4_DrainStep ==
    ( /\ Len(result_queue') < Len(result_queue)
      /\ Head(result_queue).error # EmptyStr )
    => /\ keys(processed_urls') = keys(processed_urls) \cup { Head(result_queue).url }
       /\ getitem(processed_urls', Head(result_queue).url)
            = Data(None, Head(result_queue).error)
       /\ \A k \in keys(processed_urls) \ { Head(result_queue).url } :
            getitem(processed_urls', k) = getitem(processed_urls, k)
       /\ created' = created
       /\ task_queue' = task_queue
       /\ pc' = "drain"

\* C4: a fetch that ends in an HTTPError or URLError puts exactly one result,
\* with status None, a non-empty error, no links and no redirect; when main
\* takes it, it writes that outcome under the requested URL, adds no other
\* entry, creates no task and goes on with the next result.
C4_ErrorIsRecordedAndCrawlGoesOn == [][ C4_FetchStep /\ C4_DrainStep ]_vars

\* C4 witness: main has recorded a failed fetch and has further results to take.
C4_Witness ==
    /\ pc = "drain"
    /\ result.error # EmptyStr
    /\ contains(processed_urls, result.url)
    /\ getitem(processed_urls, result.url) = Data(None, result.error)
    /\ ~contains(processed_urls, EmptyStr)
    /\ result_queue # << >>

\* C5: once main has left its loop, every URL a task was created for has an
\* entry of processed_urls that holds an outcome.
C5_EveryTaskHasOutcomeAtDone ==
    pc \in DonePcs =>
        \A i \in 1..Len(created) :
            /\ contains(processed_urls, created[i].url)
            /\ ~getitem(processed_urls, created[i].url).is_none

\* a link that is empty or begins with a scheme other than http and https
NonFetchable(link) ==
    link = EmptyStr \/ link[1] \in SchemeToks \ { "http:", "https:" }

\* C6: no link that is empty or begins with a non-http(s) scheme is ever a key
\* of processed_urls or the url of a task.
C6_NonFetchableNeverEnters ==
    /\ \A k \in keys(processed_urls) : ~NonFetchable(k)
    /\ \A i \in 1..Len(created) : ~NonFetchable(created[i].url)

\* C7: the task of every discovered link collects links exactly when the link's
\* host is the host of the seed URL.
C7_CollectIffSeedHost ==
    \A i \in 2..Len(created) :
        created[i].collect_links
            = (urlparse(created[i].url).netloc = urlparse(base_url).netloc)

\* the values print_results is to report: an error, or a status absent or >= 400
C8_Failing(v) ==
    ~v.is_none /\ (v.error # EmptyStr \/ v.status = None \/ v.status >= 400)

C9_FinalState ==
    /\ Len(processed_urls) = 4
    /\ \A i \in 1..Len(processed_urls) : ~processed_urls[i].value.is_none
    /\ print_results(processed_urls).lines = << >>
    /\ (pc = "exit" => report.lines = << >> /\ ~report.raised)

\* C9: in scenario A the crawl ends, and from the moment main leaves its loop
\* processed_urls has exactly 4 entries, each with an outcome, and nothing is
\* reported.
C9_ScenarioA == <>(pc = "exit") /\ [](pc \in DonePcs => C9_FinalState)

\* C9 witness: main has returned with the four entries and an empty report.
C9_Witness ==
    /\ pc = "exit"
    /\ site = "scenarioA"
    /\ keys(processed_urls) = { UrlS, UrlA, UrlC, UrlO }
    /\ report.lines = << >>

\* the argument with http:// in front when it starts with neither http:// nor https://
C10_WithScheme(s) ==
    IF startswith(s, HTTP) \/ startswith(s, HTTPS) THEN s ELSE HTTP \o s

\* C10: base_url has the scheme, host, path and query of the argument (with
\* http:// in front when it has no scheme) and no fragment.
C10_BaseKeepsAllButFragment ==
    pc = "join_seed" =>
        /\ urlsplit(base_url).scheme = urlsplit(C10_WithScheme(base_url_string)).scheme
        /\ urlsplit(base_url).netloc = urlsplit(C10_WithScheme(base_url_string)).netloc
        /\ urlsplit(base_url).path = urlsplit(C10_WithScheme(base_url_string)).path
        /\ urlsplit(base_url).query = urlsplit(C10_WithScheme(base_url_string)).query
        /\ urlsplit(base_url).fragment = EmptyStr

\* C11: no step removes an entry of processed_urls, and an entry that holds an
\* outcome keeps it: a step only adds entries or gives a None entry its outcome.
C11_FrontierMonotone ==
    [][ \A i \in 1..Len(processed_urls) :
          /\ contains(processed_urls', processed_urls[i].key)
          /\ ~processed_urls[i].value.is_none
               => getitem(processed_urls', processed_urls[i].key)
                    = processed_urls[i].value ]_vars

\* the URLs of the tasks that wait in task_queue or that a worker is fetching
InFlight ==
    { task_queue[i].url : i \in { j \in 1..Len(task_queue) : ~task_queue[j].stop } }
    \cup { wtask[w].url : w \in { v \in Workers : wpc[v] = "process" } }

\* C12: every URL whose task is queued or being fetched is a key of
\* processed_urls with the value None, the seed included.
C12_InFlightIsPending ==
    \A u \in InFlight :
        contains(processed_urls, u) /\ getitem(processed_urls, u).is_none

\* C12 as the code has it: every discovered URL whose task is queued or being
\* fetched is a key with the value None; the seed is no key while its task is
\* queued or being fetched (processed_urls is still empty), and it is a key
\* before main expands the first link.
C12_DiscoveredInFlightIsPending ==
    /\ \A u \in InFlight \ { base_url } :
          contains(processed_urls, u) /\ getitem(processed_urls, u).is_none
    /\ base_url \in InFlight => processed_urls = EmptyDict
    /\ pc = "links" => contains(processed_urls, base_url)

\* C12 witness: a worker is fetching a discovered URL whose entry is None, while
\* another discovered URL still waits in task_queue.
C12_Witness ==
    \E w \in Workers :
        /\ wpc[w] = "process"
        /\ wtask[w].url = UrlA
        /\ contains(processed_urls, UrlA)
        /\ getitem(processed_urls, UrlA).is_none
        /\ contains(processed_urls, base_url)
        /\ \E i \in 1..Len(task_queue) : task_queue[i].url = UrlO

\* the number of results with the given url in a bag of results
ResultsFor(rs, u) ==
    BagCardinality([r \in { x \in BagToSet(rs) : x.url = u } |-> CopiesIn(r, rs)])

\* the results waiting on result_queue, as a bag
Waiting ==
    [r \in { result_queue[i] : i \in 1..Len(result_queue) }
        |-> Cardinality({ i \in 1..Len(result_queue) : result_queue[i] = r })]

\* C13: when task_queue.join() has returned (main is at the loop test), every
\* task put so far has been taken by a worker, no worker is inside a fetch or
\* between results.put and task_done, and the result of every task is either
\* still on result_queue or has been taken by main.
C13_BarrierReleasesAfterAllResults ==
    pc = "loop" =>
        /\ task_queue = << >>
        /\ taken = created
        /\ \A w \in Workers : wpc[w] = "get"
        /\ produced = consumed (+) Waiting
        /\ \A i \in 1..Len(created) : ResultsFor(produced, created[i].url) = 1

\* C13 witness: join has returned after a round with several tasks; some of
\* their results were taken in that round and some still wait on result_queue.
C13_Witness ==
    /\ pc = "loop"
    /\ Len(created) >= 4
    /\ BagCardinality(consumed) >= 2
    /\ Len(result_queue) >= 2

\* C14: main has left its loop only after a round in which it put no task
\* (has_tasks stayed False, num stayed 0), and from then on task_queue holds no
\* Task, no worker is inside a fetch, result_queue is empty and main has taken
\* every result that was ever put, one for each task created.
C14_DoneOnlyWhenQuiescent ==
    pc \in DonePcs =>
        /\ ~has_tasks
        /\ num = 0
        /\ \A i \in 1..Len(task_queue) : task_queue[i].stop
        /\ \A w \in Workers : wpc[w] \in { "get", "stopped" }
        /\ result_queue = << >>
        /\ consumed = produced
        /\ BagCardinality(produced) = Len(created)
        /\ taken = created

\* C14 witness: main leaves its loop after a crawl in which results were put
\* while it was draining: the redirecting page /a and the pages found on it
\* have all been taken.
C14_Witness ==
    /\ pc = "stop"
    /\ BagCardinality(consumed) >= 6
    /\ \E r \in BagToSet(consumed) : r.url = UrlA /\ r.links = HrefsD

\* the stop signals still in task_queue
StopsQueued == Cardinality({ i \in 1..Len(task_queue) : task_queue[i].stop })

\* the workers that have left the loop of run through the break of line 150
StoppedWorkers == { w \in Workers : wpc[w] = "stopped" }

\* a Task still waits in task_queue
TaskWaiting == \E i \in 1..Len(task_queue) : ~task_queue[i].stop

\* the stop signals are put only after main has left its loop, one for each
\* worker, and a worker takes at most one; no worker takes one while a Task waits
C15_SentinelPart ==
    /\ StopsQueued + Cardinality(StoppedWorkers)
          = IF pc \in { "report", "exit" } THEN THREADS_NUM ELSE 0
    /\ StoppedWorkers # {} => ~TaskWaiting

\* once main has left its loop every worker leaves the loop of run
C15_WorkersEventuallyStop ==
    (pc \in DonePcs) ~> (\A w \in Workers : wpc[w] = "stopped")

\* C15: stop signals are put only after main has left its loop, exactly one for
\* each worker; a worker takes at most one; and no worker thread has ended, by
\* the break or otherwise, while a Task still waits in task_queue.
C15_NoWorkerEndsBeforeTheWorkIsDone ==
    /\ C15_SentinelPart
    /\ \A w \in Workers : wpc[w] \in { "stopped", "crashed" } => ~TaskWaiting

\* the base a relative link of a result is to be joined with: the final URL
\* when the fetch was redirected, the requested URL otherwise
C16_Base(res) ==
    IF res.redirect # EmptyStr /\ res.redirect # res.url THEN res.redirect ELSE res.url

\* the URL a link of a result stands for
C16_Resolved(href, res) ==
    IF is_relative(clean_fragments(href))
    THEN urljoin(C16_Base(res), clean_fragments(href))
    ELSE clean_fragments(href)

\* C16: whenever main puts a task for a link of a result, the task's url, which
\* is also the key it adds to processed_urls, is the link joined with the final
\* URL of the fetch when it was redirected and with the requested URL otherwise.
C16_RelativeLinkUsesFinalUrl ==
    [][ (pc = "links" /\ Len(created') > Len(created))
          => /\ created'[Len(created')].url = C16_Resolved(Head(links), result)
             /\ contains(processed_urls', C16_Resolved(Head(links), result))
             /\ ~contains(processed_urls, C16_Resolved(Head(links), result)) ]_vars

\* the number of tasks with the given url in a sequence of tasks
TasksFor(ts, u) == Cardinality({ i \in 1..Len(ts) : ts[i].url = u })

\* C17: a key of processed_urls that no task was created for (a redirect target
\* written by line 216) never gets a task; more generally a step never puts a
\* task for a URL that is already a key, and never changes a task already
\* created, so a URL keeps the collect_links of its first discovery.
C17_SeenUrlIsNeverFetchedAgain ==
    [][ /\ \A u \in keys(processed_urls) :
               TasksFor(created, u) = 0 => TasksFor(created', u) = 0
        /\ Len(created') >= Len(created)
        /\ SubSeq(created', 1, Len(created)) = created
        /\ \A i \in (Len(created) + 1)..Len(created') :
               ~contains(processed_urls, created'[i].url) ]_vars

\* C17 witness: /d/ became a key as the redirect target of /a; main has since
\* gone through the links of that page, among them "/d/" itself, has put a
\* task for the link after it, and there is no task for /d/.
C17_Witness ==
    /\ pc = "drain"
    /\ result.url = UrlA
    /\ result.redirect = UrlD
    /\ result.links = HrefsD
    /\ links = << >>
    /\ contains(processed_urls, UrlD)
    /\ TasksFor(created, UrlD) = 0
    /\ TasksFor(created, UrlC) = 1

\* the Task items still in task_queue, in order
TasksQueued == SelectSeq(task_queue, LAMBDA t : ~t.stop)

\* the workers that hold a task: inside process_page or before task_done
Busy == { w \in Workers : wpc[w] \in { "process", "task_done" } }

\* tasks and results pass through the queues once: the tasks taken and the
\* tasks waiting are the tasks created, two workers never hold the same task,
\* no URL has more than one result, and the results main took and the results
\* waiting are the results put
C18_QueuesPart ==
    /\ created = taken \o TasksQueued
    /\ \A v, w \in Busy : wtask[v] = wtask[w] => v = w
    /\ \A i \in 1..Len(taken) : ResultsFor(produced, taken[i].url) <= 1
    /\ \A r \in BagToSet(produced) : TasksFor(taken, r.url) = 1
    /\ produced = consumed (+) Waiting

\* C18: every task is taken by one worker only and no task or result is lost
\* or handled twice; every task a worker took has exactly one result, unless
\* the worker is still inside process_page with it.
C18_ExactlyOnce ==
    /\ C18_QueuesPart
    /\ \A i \in 1..Len(taken) :
          ResultsFor(produced, taken[i].url)
            = IF \E w \in Workers : wpc[w] = "process" /\ wtask[w] = taken[i]
              THEN 0 ELSE 1

\* one fixed outcome for each URL of the crawl from http://example.com/: the
\* seed page, /a answered with an HTTP error, other.com redirected to
\* www.other.com, www.other.com answered directly
C19_Outcome(u) ==
    IF u = UrlS THEN ResponseResult(UrlS, 200, EmptyStr, HrefsS, UrlS)
    ELSE IF u = UrlA
    THEN ResponseResult(UrlA, None, << "Server error: ", "x" >>, << >>, EmptyStr)
    ELSE IF u = UrlO THEN ResponseResult(UrlO, 200, EmptyStr, << >>, UrlOW)
    ELSE IF u = UrlOW THEN ResponseResult(UrlOW, 200, EmptyStr, << >>, UrlOW)
    ELSE NoResult

\* every fetch so far had the fixed outcome of its URL
C19_FixedOutcomes ==
    /\ base_url = UrlS
    /\ \A r \in BagToSet(produced) : r = C19_Outcome(r.url)

\* a dict as the mapping from its keys to their values, without the order
AsMap(d) == [k \in keys(d) |-> getitem(d, k)]

\* the final processed_urls of the run in which main takes the result of
\* other.com before the result of www.other.com
C19_Frontier ==
    AsMap(<< [key |-> UrlS,  value |-> Data(200, EmptyStr)],
             [key |-> UrlA,  value |-> Data(None, << "Server error: ", "x" >>)],
             [key |-> UrlO,  value |-> Data(200, EmptyStr)],
             [key |-> UrlOW, value |-> Data(200, EmptyStr)] >>)

\* that run ends: main has left its loop with C19_Frontier
C19_InOrderRun ==
    /\ pc \in DonePcs
    /\ C19_FixedOutcomes
    /\ produced = SetToBag({ C19_Outcome(UrlS), C19_Outcome(UrlA), C19_Outcome(UrlO),
                             C19_Outcome(UrlOW) })
    /\ AsMap(processed_urls) = C19_Frontier

\* C19: with the fixed outcome of each URL, every run that ends has created
\* tasks for the same URLs and ends with the same processed_urls (keys and
\* values) as the run in which main takes the result of other.com before the
\* result of www.other.com.
C19_OrderIndependent ==
    (pc \in DonePcs /\ C19_FixedOutcomes)
        => /\ { created[i].url : i \in 1..Len(created) } = { UrlS, UrlA, UrlO, UrlOW }
           /\ AsMap(processed_urls) = C19_Frontier

=============================================================================
